---- MODULE Spec2Model ----
(***************************************************************************)
(* ETA/ATA deep dive by BOL (src/app.py).                                  *)
(*                                                                         *)
(* The script reads a shipment CSV, keeps the container rows, groups them  *)
(* by BOL, computes per BOL the presence counts and the spread between the *)
(* earliest and the latest ETA / ATA, classifies the spreads into buckets, *)
(* extracts the rows of the BOLs with mixed ATA presence and builds a      *)
(* summary table.                                                          *)
(*                                                                         *)
(* Cell texts are sequences of one-character strings, so that strip(),     *)
(* upper() and the timestamp parser work on the characters.  Bucket and    *)
(* metric labels, which the code only compares and copies, are strings.    *)
(***************************************************************************)
EXTENDS Integers, Sequences, FiniteSets, TLC

VARIABLES
    uploaded_file,                  \* the uploaded CSV (raw cells) or NoFile
    df,                             \* the table after read_csv + fillna("")
    containers,                     \* the container rows, with eta_dt / ata_dt
    bol_spread,                     \* one record per BOL, sorted by bol_id
    bol_mixed_ata_presence_detail,  \* rows of the BOLs with mixed ATA presence
    summary_df,                     \* the summary rows
    zip,                            \* the four tables packaged, or NoZip
    message,                        \* the st.info / st.warning / st.success shown
    value,                          \* classify_spread_hours: its argument
    bucket                          \* classify_spread_hours: its result

vars == <<uploaded_file, df, containers, bol_spread,
          bol_mixed_ata_presence_detail, summary_df, zip, message,
          value, bucket>>

pipeline_vars == <<uploaded_file, df, containers, bol_spread,
                   bol_mixed_ata_presence_detail, summary_df, zip, message>>

classify_vars == <<value, bucket>>

(***************************************************************************)
(* Bounds.                                                                 *)
(***************************************************************************)
MaxRows == 3

ClassifyRange == 8

(***************************************************************************)
(* Characters and str methods.                                             *)
(***************************************************************************)
\* the characters of the model, in code point order
Alphabet ==
    <<"\t", " ", "-", "0", "1", "2", "3", "4", "5", "6", "7", "8", "9", ":",
      "A", "B", "C", "D", "E", "F", "G", "H", "I", "J", "K", "L", "M", "N",
      "O", "P", "Q", "R", "S", "T", "U", "V", "W", "X", "Y", "Z", "_",
      "a", "b", "c", "d", "e", "f", "g", "h", "i", "j", "k", "l", "m", "n",
      "o", "p", "q", "r", "s", "t", "u", "v", "w", "x", "y", "z">>

\* the position of each character in Alphabet
OrdTable ==
    [c \in {Alphabet[i] : i \in 1..Len(Alphabet)} |->
        CHOOSE i \in 1..Len(Alphabet) : Alphabet[i] = c]

Ord(c) == OrdTable[c]

WhiteSpace == {"\t", " "}

IsLower(c) == Ord(c) >= Ord("a") /\ Ord(c) <= Ord("z")

IsDigit(c) == Ord(c) >= Ord("0") /\ Ord(c) <= Ord("9")

DigitVal(c) == Ord(c) - Ord("0")

UpperChar(c) == IF IsLower(c) THEN Alphabet[Ord("A") + (Ord(c) - Ord("a"))] ELSE c

\* str.upper()
upper(s) == [i \in 1..Len(s) |-> UpperChar(s[i])]

RECURSIVE lstrip(_)
lstrip(s) ==
    IF s = <<>> THEN <<>>
    ELSE IF Head(s) \in WhiteSpace THEN lstrip(Tail(s))
    ELSE s

RECURSIVE rstrip(_)
rstrip(s) ==
    IF s = <<>> THEN <<>>
    ELSE IF s[Len(s)] \in WhiteSpace THEN rstrip(SubSeq(s, 1, Len(s) - 1))
    ELSE s

\* str.strip()
strip(s) == rstrip(lstrip(s))

\* s < t for Python strings (lexicographic by code point)
RECURSIVE StrLess(_, _)
StrLess(s, t) ==
    IF t = <<>> THEN FALSE
    ELSE IF s = <<>> THEN TRUE
    ELSE IF Head(s) = Head(t) THEN StrLess(Tail(s), Tail(t))
    ELSE Ord(Head(s)) < Ord(Head(t))

(***************************************************************************)
(* Values that are not texts.                                              *)
(***************************************************************************)
None == [none |-> TRUE]             \* Python's None

NaN == [nan |-> TRUE]               \* float nan (an undefined spread)

NaNCell == <<"nan">>                \* float nan in a column of texts: an empty CSV cell

NaT == [nat |-> TRUE]               \* pandas' not-a-time

Undefined == [undefined |-> TRUE]   \* a name the script has not bound in this run

Unbound == <<>>                     \* the same, for the names that hold tables

NoBucket == ""                      \* the same, for classify_spread_hours' result

Timestamp(secs) == [secs |-> secs]

\* a float, as the exact quotient num / den (den > 0)
Float(num, den) == [num |-> num, den |-> den]

IsNumber(v) == v # None /\ v # NaN

(***************************************************************************)
(* pd.to_datetime(..., errors="coerce") on one text.  The model covers the *)
(* ISO 8601 form YYYY-MM-DD hh:mm:ss (with " " or "T" between date and     *)
(* time); every other text, the empty text included, is coerced to NaT.    *)
(* A parsed timestamp is held as seconds since 1970-01-01 00:00:00.        *)
(***************************************************************************)
Num2(s, i) == 10 * DigitVal(s[i]) + DigitVal(s[i + 1])

Num4(s, i) == 100 * Num2(s, i) + Num2(s, i + 2)

IsLeap(y) == (y % 4 = 0 /\ y % 100 # 0) \/ y % 400 = 0

DaysInMonth(y, m) ==
    IF m = 2 THEN (IF IsLeap(y) THEN 28 + 1 ELSE 28)
    ELSE IF m \in {4, 6, 9, 11} THEN 30
    ELSE 31

\* days from 1970-01-01 to y-m-d in the proleptic Gregorian calendar
DaysFromCivil(y, m, d) ==
    LET yy  == IF m <= 2 THEN y - 1 ELSE y
        era == yy \div 400
        yoe == yy - era * 400
        mp  == (m + 9) % 12
        doy == (153 * mp + 2) \div 5 + d - 1
        doe == yoe * 365 + yoe \div 4 - yoe \div 100 + doy
    IN  era * 146097 + doe - 719468

IsoShape(s) ==
    /\ Len(s) = 19
    /\ \A i \in {1, 2, 3, 4, 6, 7, 9, 10, 12, 13, 15, 16, 18, 19} : IsDigit(s[i])
    /\ s[5] = "-" /\ s[8] = "-"
    /\ s[11] \in {" ", "T"}
    /\ s[14] = ":" /\ s[17] = ":"

to_datetime(s) ==
    IF ~IsoShape(s) THEN NaT
    ELSE LET y  == Num4(s, 1)
             m  == Num2(s, 6)
             d  == Num2(s, 9)
             h  == Num2(s, 12)
             mi == Num2(s, 15)
             se == Num2(s, 18)
         IN  IF /\ m >= 1 /\ m <= 12
                /\ d >= 1 /\ d <= DaysInMonth(y, m)
                /\ h <= 23 /\ mi <= 59 /\ se <= 59
             THEN Timestamp(DaysFromCivil(y, m, d) * 86400 + h * 3600 + mi * 60 + se)
             ELSE NaT

(***************************************************************************)
(* Reading the file and filtering the container rows.                      *)
(***************************************************************************)
Columns == {"identifier", "shipment_type", "bol_id", "eta", "ata"}

\* pd.read_csv(uploaded_file, dtype=str): the rows, NaN in the empty cells
read_csv(file) == file.rows

\* df.fillna("")
fillna(table) ==
    [i \in 1..Len(table) |->
        [c \in Columns |-> IF table[i][c] = NaNCell THEN <<>> ELSE table[i][c]]]

CONTAINER == <<"C", "O", "N", "T", "A", "I", "N", "E", "R">>

CONTAINER_ID == CONTAINER \o <<"_", "I", "D">>

\* .str.strip().str.upper().isin(["CONTAINER", "CONTAINER_ID"]) on one cell
MaskNoStrip(shipment_type) == upper(shipment_type) \in {CONTAINER, CONTAINER_ID}

container_mask(shipment_type) ==
    upper(strip(shipment_type)) \in {CONTAINER, CONTAINER_ID}

\* work_df[mask].copy()
filter_containers(work_df) ==
    SelectSeq(work_df, LAMBDA r : container_mask(r.shipment_type))

EmptyNever(rows) == FALSE

\* containers.empty
empty(rows) == Len(rows) = 0

\* containers["eta_dt"], containers["ata_dt"]
parse_timestamps(rows) ==
    [i \in 1..Len(rows) |->
        [c \in Columns \cup {"eta_dt", "ata_dt"} |->
            IF c = "eta_dt" THEN to_datetime(rows[i].eta)
            ELSE IF c = "ata_dt" THEN to_datetime(rows[i].ata)
            ELSE rows[i][c]]]

(***************************************************************************)
(* groupby("bol_id") and the aggregations.                                 *)
(***************************************************************************)
\* the values of a set of texts in ascending order (groupby sorts its keys)
RECURSIVE SortedKeys(_)
SortedKeys(S) ==
    IF S = {} THEN <<>>
    ELSE LET k == CHOOSE x \in S : \A y \in S \ {x} : StrLess(x, y)
         IN  <<k>> \o SortedKeys(S \ {k})

group_keys(rows) == SortedKeys({rows[i].bol_id : i \in 1..Len(rows)})

group(rows, key) == SelectSeq(rows, LAMBDA r : r.bol_id = key)

Series(rows, c) == [i \in 1..Len(rows) |-> rows[i][c]]

\* "size"
size(s) == Len(s)

RECURSIVE CountParsable(_)
CountParsable(s) ==
    IF s = <<>> THEN 0
    ELSE (IF to_datetime(Head(s)) # NaT THEN 1 ELSE 0) + CountParsable(Tail(s))

\* lambda s: (s.str.strip() != "").sum()
RECURSIVE count_present(_)
count_present(s) ==
    IF s = <<>> THEN 0
    ELSE (IF strip(Head(s)) # <<>> THEN 1 ELSE 0) + count_present(Tail(s))

RECURSIVE CountMissingNoStrip(_)
CountMissingNoStrip(s) ==
    IF s = <<>> THEN 0
    ELSE (IF Head(s) = <<>> THEN 1 ELSE 0) + CountMissingNoStrip(Tail(s))

\* lambda s: (s.str.strip() == "").sum()
RECURSIVE count_missing(_)
count_missing(s) ==
    IF s = <<>> THEN 0
    ELSE (IF strip(Head(s)) = <<>> THEN 1 ELSE 0) + count_missing(Tail(s))

\* the first timestamp of the series, NaT when it has none
RECURSIVE FirstValid(_)
FirstValid(s) ==
    IF s = <<>> THEN NaT
    ELSE IF Head(s) # NaT THEN Head(s)
    ELSE FirstValid(Tail(s))

\* "min" of a datetime series: NaT is skipped, NaT when nothing is left
RECURSIVE series_min(_)
series_min(s) ==
    IF s = <<>> THEN NaT
    ELSE LET rest == series_min(Tail(s))
         IN  IF Head(s) = NaT THEN rest
             ELSE IF rest = NaT THEN Head(s)
             ELSE IF Head(s).secs < rest.secs THEN Head(s) ELSE rest

\* "max" of a datetime series
RECURSIVE series_max(_)
series_max(s) ==
    IF s = <<>> THEN NaT
    ELSE LET rest == series_max(Tail(s))
         IN  IF Head(s) = NaT THEN rest
             ELSE IF rest = NaT THEN Head(s)
             ELSE IF Head(s).secs > rest.secs THEN Head(s) ELSE rest

SecondsPerHour == 3600

SpreadReversed(max, min) ==
    IF max = NaT \/ min = NaT THEN NaN
    ELSE Float(min.secs - max.secs, SecondsPerHour)

\* (max - min).dt.total_seconds() / 3600.0
spread_hours(max, min) ==
    IF max = NaT \/ min = NaT THEN NaN
    ELSE Float(max.secs - min.secs, SecondsPerHour)

DayHours == 24

ClassifyOpenAt24(v) ==
    IF v = None \/ v = NaN THEN "NO_VALID_TIMESTAMP"
    ELSE IF v.num = 0 THEN "NO_DIFFERENCE"
    ELSE IF 0 < v.num /\ v.num < DayHours * v.den THEN "BETWEEN_1_AND_24_HOURS"
    ELSE "MORE_THAN_24_HOURS"

classify_spread_hours(v) ==
    IF v = None \/ v = NaN THEN "NO_VALID_TIMESTAMP"
    ELSE IF v.num = 0 THEN "NO_DIFFERENCE"
    ELSE IF 0 < v.num /\ v.num <= DayHours * v.den THEN "BETWEEN_1_AND_24_HOURS"
    ELSE "MORE_THAN_24_HOURS"

\* grouped.agg(...) for one group, then the spreads and the buckets
aggregate_group(key, g) ==
    LET eta_min == series_min(Series(g, "eta_dt"))
        eta_max == series_max(Series(g, "eta_dt"))
        ata_min == series_min(Series(g, "ata_dt"))
        ata_max == series_max(Series(g, "ata_dt"))
        eta_sp  == spread_hours(eta_max, eta_min)
        ata_sp  == spread_hours(ata_max, ata_min)
    IN  [bol_id            |-> key,
         n_containers      |-> size(Series(g, "identifier")),
         n_eta_present     |-> count_present(Series(g, "eta")),
         n_eta_missing     |-> count_missing(Series(g, "eta")),
         n_ata_present     |-> count_present(Series(g, "ata")),
         n_ata_missing     |-> count_missing(Series(g, "ata")),
         eta_min           |-> eta_min,
         eta_max           |-> eta_max,
         ata_min           |-> ata_min,
         ata_max           |-> ata_max,
         eta_spread_hours  |-> eta_sp,
         ata_spread_hours  |-> ata_sp,
         eta_spread_bucket |-> classify_spread_hours(eta_sp),
         ata_spread_bucket |-> classify_spread_hours(ata_sp)]

\* bol_spread after reset_index(): one record per BOL, in key order
aggregate(rows) ==
    LET keys == group_keys(rows)
    IN  [k \in 1..Len(keys) |-> aggregate_group(keys[k], group(rows, keys[k]))]

(***************************************************************************)
(* Mixed ATA presence.                                                     *)
(***************************************************************************)
MixedEither(bs) ==
    Series(SelectSeq(bs, LAMBDA b : b.n_ata_present > 0 \/ b.n_ata_missing > 0),
           "bol_id")

\* bol_spread.loc[(n_ata_present > 0) & (n_ata_missing > 0), "bol_id"]
mixed_ata_bols(bs) ==
    Series(SelectSeq(bs, LAMBDA b : b.n_ata_present > 0 /\ b.n_ata_missing > 0),
           "bol_id")

isin(x, series) == \E i \in 1..Len(series) : series[i] = x

Project(rows, cols) == [i \in 1..Len(rows) |-> [c \in cols |-> rows[i][c]]]

\* containers[containers["bol_id"].isin(mixed_ata_bols)][[...]].copy()
mixed_detail(rows, mixed) ==
    Project(SelectSeq(rows, LAMBDA r : isin(r.bol_id, mixed)), Columns)

(***************************************************************************)
(* The summary table.                                                      *)
(***************************************************************************)
BucketLabels ==
    {"NO_DIFFERENCE", "BETWEEN_1_AND_24_HOURS", "MORE_THAN_24_HOURS",
     "NO_VALID_TIMESTAMP"}

\* bucket_descriptions.get(bucket, bucket); the source's "≤" is written "<="
bucket_descriptions(b) ==
    CASE b = "NO_DIFFERENCE" -> "Spread = 0 hours"
      [] b = "BETWEEN_1_AND_24_HOURS" -> "Spread > 0 and <= 24 hours"
      [] b = "MORE_THAN_24_HOURS" -> "Spread > 24 hours"
      [] b = "NO_VALID_TIMESTAMP" -> "No parsable timestamps for this metric in the BOL"
      [] b = "MIXED_PRESENT_AND_MISSING" ->
             "BOLs where some containers have ATA and others do not"
      [] OTHER -> b

\* the distinct values of a series, in the order they first appear
RECURSIVE Unique(_, _)
Unique(s, seen) ==
    IF s = <<>> THEN <<>>
    ELSE IF Head(s) \in seen THEN Unique(Tail(s), seen)
    ELSE <<Head(s)>> \o Unique(Tail(s), seen \cup {Head(s)})

Occurrences(s, x) == Cardinality({i \in 1..Len(s) : s[i] = x})

\* insert e into a sequence already in descending count order, after its equals
RECURSIVE InsertDesc(_, _)
InsertDesc(sorted, e) ==
    IF sorted = <<>> THEN <<e>>
    ELSE IF Head(sorted).count >= e.count THEN <<Head(sorted)>> \o InsertDesc(Tail(sorted), e)
    ELSE <<e>> \o sorted

RECURSIVE SortDesc(_, _)
SortDesc(todo, sorted) ==
    IF todo = <<>> THEN sorted
    ELSE SortDesc(Tail(todo), InsertDesc(sorted, Head(todo)))

ValueCountsPresence(s) ==
    LET u == Unique(s, {})
    IN  SortDesc([i \in 1..Len(u) |-> [bucket |-> u[i], count |-> 1]], <<>>)

\* Series.value_counts(dropna=False).to_dict(): the distinct values with their
\* counts, by descending count, equal counts in the order of first appearance
value_counts(s) ==
    LET u == Unique(s, {})
    IN  SortDesc([i \in 1..Len(u) |-> [bucket |-> u[i], count |-> Occurrences(s, u[i])]],
                 <<>>)

metric_rows(metric, counts) ==
    [i \in 1..Len(counts) |->
        [metric      |-> metric,
         bucket      |-> counts[i].bucket,
         description |-> bucket_descriptions(counts[i].bucket),
         count       |-> counts[i].count]]

mixed_row(mixed) ==
    [metric      |-> "ATA_MIXED_PRESENCE",
     bucket      |-> "MIXED_PRESENT_AND_MISSING",
     description |-> bucket_descriptions("MIXED_PRESENT_AND_MISSING"),
     count       |-> Len(mixed)]

SummaryMixedOnlyIfAny(bs, mixed) ==
    metric_rows("ETA", value_counts(Series(bs, "eta_spread_bucket")))
    \o metric_rows("ATA", value_counts(Series(bs, "ata_spread_bucket")))
    \o (IF Len(mixed) > 0 THEN <<mixed_row(mixed)>> ELSE <<>>)

\* rows, as appended for ETA, then ATA, then the mixed ATA presence
summary_rows(bs, mixed) ==
    metric_rows("ETA", value_counts(Series(bs, "eta_spread_bucket")))
    \o metric_rows("ATA", value_counts(Series(bs, "ata_spread_bucket")))
    \o <<mixed_row(mixed)>>

EtaColumns ==
    {"bol_id", "n_containers", "n_eta_present", "n_eta_missing", "eta_min",
     "eta_max", "eta_spread_hours", "eta_spread_bucket"}

AtaColumns ==
    {"bol_id", "n_containers", "n_ata_present", "n_ata_missing", "ata_min",
     "ata_max", "ata_spread_hours", "ata_spread_bucket"}

\* the ZIP archive: file name -> table
package(bs, detail, summary) ==
    [bol_eta_spread                |-> Project(bs, EtaColumns),
     bol_ata_spread                |-> Project(bs, AtaColumns),
     bol_mixed_ata_presence_detail |-> detail,
     summary                       |-> summary]

(***************************************************************************)
(* The uploaded files the model draws from.                                *)
(***************************************************************************)
Date1231 == <<"2", "0", "2", "3", "-", "1", "2", "-", "3", "1">>

Date0101 == <<"2", "0", "2", "4", "-", "0", "1", "-", "0", "1">>

Noon == <<" ", "1", "2", ":", "0", "0", ":", "0", "0">>

Midnight == <<" ", "0", "0", ":", "0", "0", ":", "0", "0">>

NoonPlus1s == <<" ", "1", "2", ":", "0", "0", ":", "0", "1">>

TA == Date1231 \o Noon          \* 2023-12-31 12:00:00

TB == Date0101 \o Midnight      \* 2024-01-01 00:00:00, 12 h after TA

TC == Date0101 \o Noon          \* 2024-01-01 12:00:00, 24 h after TA

TD == Date0101 \o NoonPlus1s    \* 2024-01-01 12:00:01, 24 h 1 s after TA

TBD == <<"T", "B", "D">>        \* a text that is no timestamp

Blank == <<" ">>

B1 == <<"B", "1">>

B2 == <<"B", "2">>

B3 == <<"B", "3">>

Row(type, bol, id, eta, ata) ==
    [identifier |-> id, shipment_type |-> type, bol_id |-> bol, eta |-> eta, ata |-> ata]

Str_Container == <<"C", "o", "n", "t", "a", "i", "n", "e", "r">>

Str_container_id == <<" ", "c", "o", "n", "t", "a", "i", "n", "e", "r", "_", "i", "d", "\t">>

Str_TRUCK == <<"T", "R", "U", "C", "K">>

Str_CONTAINERS == CONTAINER \o <<"S">>

\* the rows a file is made of; NaNCell is an empty CSV cell
RowDomain ==
    {Row(Str_Container,    B1, <<"c", "1">>, TA,      TB),
     Row(Str_Container,    B1, <<"c", "2">>, TC,      NaNCell),
     Row(Str_Container,    B1, <<"c", "3">>, TD,      TBD),
     Row(Str_Container,    B1, <<"c", "4">>, TBD,     TA),
     Row(Str_Container,    B2, <<"c", "5">>, TA,      Blank),
     Row(Str_Container,    B2, <<"c", "6">>, Blank,   TD),
     Row(Str_container_id, B2, <<"c", "7">>, NaNCell, TB),
     Row(CONTAINER_ID,     B3, <<"c", "8">>, TC,      TA),
     Row(Str_TRUCK,        B1, <<"t", "1">>, TD,      Blank),
     Row(Str_CONTAINERS,   B2, <<"s", "1">>, TA,      TA)}

Files == {[rows |-> t] : t \in UNION {[1..n -> RowDomain] : n \in 0..MaxRows}}

(***************************************************************************)
(* The script as a state machine.  Streamlit runs the script from the top  *)
(* on every interaction: a run with a file reads it, and a run with the    *)
(* button pressed also does the analysis.                                  *)
(***************************************************************************)
NoResults ==
    /\ containers' = Unbound
    /\ bol_spread' = Unbound
    /\ bol_mixed_ata_presence_detail' = Unbound
    /\ summary_df' = Unbound
    /\ zip' = Undefined

Init ==
    /\ uploaded_file = None
    /\ df = Unbound
    /\ containers = Unbound
    /\ bol_spread = Unbound
    /\ bol_mixed_ata_presence_detail = Unbound
    /\ summary_df = Unbound
    /\ zip = Undefined
    /\ message = "Upload a CSV file to begin."
    /\ value = Undefined
    /\ bucket = NoBucket

\* a file is uploaded: the script reads it and shows the column mapping
Upload ==
    /\ uploaded_file = None
    /\ \E file \in Files : uploaded_file' = file
    /\ df' = fillna(read_csv(uploaded_file'))
    /\ NoResults
    /\ message' = "Detected rows and columns."
    /\ UNCHANGED classify_vars

\* the file is removed from the uploader
RemoveFile ==
    /\ uploaded_file # None
    /\ uploaded_file' = None
    /\ df' = Unbound
    /\ NoResults
    /\ message' = "Upload a CSV file to begin."
    /\ UNCHANGED classify_vars

\* the button is pressed and no row is a container
RunNoContainers ==
    /\ uploaded_file # None
    /\ empty(filter_containers(df))
    /\ containers' = filter_containers(df)
    /\ bol_spread' = Unbound
    /\ bol_mixed_ata_presence_detail' = Unbound
    /\ summary_df' = Unbound
    /\ zip' = Undefined
    /\ message' = "No container rows found."
    /\ UNCHANGED <<uploaded_file, df>>
    /\ UNCHANGED classify_vars

\* the button is pressed and there are container rows
RunAnalysis ==
    /\ uploaded_file # None
    /\ ~empty(filter_containers(df))
    /\ containers' = parse_timestamps(filter_containers(df))
    /\ bol_spread' = aggregate(containers')
    /\ bol_mixed_ata_presence_detail' = mixed_detail(containers', mixed_ata_bols(bol_spread'))
    /\ summary_df' = summary_rows(bol_spread', mixed_ata_bols(bol_spread'))
    /\ zip' = package(bol_spread', bol_mixed_ata_presence_detail', summary_df')
    /\ message' = "Deep-dive analysis completed. Download the ZIP below."
    /\ UNCHANGED <<uploaded_file, df>>
    /\ UNCHANGED classify_vars

Next ==
    \/ Upload
    \/ RemoveFile
    \/ RunNoContainers
    \/ RunAnalysis

Spec == Init /\ [][Next]_vars

(***************************************************************************)
(* classify_spread_hours on its own.                                       *)
(***************************************************************************)
ClassifyInputs ==
    {None, NaN}
    \cup {Float(n, 1) : n \in (0 - ClassifyRange)..(DayHours + ClassifyRange)}
    \cup {Float(n, SecondsPerHour) : n \in (0 - ClassifyRange)..ClassifyRange}
    \cup {Float(DayHours * SecondsPerHour + n, SecondsPerHour) :
            n \in (0 - ClassifyRange)..ClassifyRange}

InitClassify ==
    /\ uploaded_file = None
    /\ df = Unbound
    /\ containers = Unbound
    /\ bol_spread = Unbound
    /\ bol_mixed_ata_presence_detail = Unbound
    /\ summary_df = Unbound
    /\ zip = Undefined
    /\ message = "Upload a CSV file to begin."
    /\ value \in ClassifyInputs
    /\ bucket = NoBucket

Classify ==
    /\ bucket = NoBucket
    /\ bucket' = classify_spread_hours(value)
    /\ UNCHANGED value
    /\ UNCHANGED pipeline_vars

NextClassify == Classify

SpecClassify == InitClassify /\ [][NextClassify]_vars

(***************************************************************************)
(* Vocabulary of the properties.                                           *)
(***************************************************************************)
WarningShown == message = "No container rows found."

Completed == message = "Deep-dive analysis completed. Download the ZIP below."

ButtonPressed == WarningShown \/ Completed

\* the shipment types of RowDomain that denote a container
ContainerSpellings == {Str_Container, Str_container_id, CONTAINER_ID}

IsContainerRow(r) == r.shipment_type \in ContainerSpellings

\* a text with no character other than white space
IsBlankText(t) == \A i \in 1..Len(t) : t[i] \in WhiteSpace

RowsOf(rows, bol) == {i \in 1..Len(rows) : rows[i].bol_id = bol}

BolIds(rows) == {rows[i].bol_id : i \in 1..Len(rows)}

Bols == 1..Len(bol_spread)

\* the BOL has a container row with an ATA and one without
HasMixedAta(bol) ==
    /\ \E i \in RowsOf(containers, bol) : ~IsBlankText(containers[i].ata)
    /\ \E i \in RowsOf(containers, bol) : IsBlankText(containers[i].ata)

(***************************************************************************)
(* C1: the mixed-presence detail is exactly the container rows, in input   *)
(* order, of the BOLs with n_ata_present > 0 and n_ata_missing > 0: such a *)
(* BOL has all its container rows in the detail, any other BOL has none,   *)
(* and no row that is not a container is in it.                            *)
(***************************************************************************)
C1_MixedDetailExact ==
    Completed =>
        /\ bol_mixed_ata_presence_detail
             = SelectSeq(df, LAMBDA r : IsContainerRow(r) /\ HasMixedAta(r.bol_id))
        /\ \A b \in Bols :
             (bol_spread[b].n_ata_present > 0 /\ bol_spread[b].n_ata_missing > 0)
               <=> RowsOf(bol_mixed_ata_presence_detail, bol_spread[b].bol_id) # {}
        /\ \A b \in Bols :
             RowsOf(bol_mixed_ata_presence_detail, bol_spread[b].bol_id) # {}
               => Cardinality(RowsOf(bol_mixed_ata_presence_detail, bol_spread[b].bol_id))
                    = bol_spread[b].n_containers

\* a mixed BOL whose two rows have a row of another, not mixed BOL between them
C1_Witness ==
    /\ Completed
    /\ Len(containers) = 3
    /\ Len(bol_mixed_ata_presence_detail) = 2
    /\ containers[1].bol_id = containers[3].bol_id
    /\ containers[2].bol_id # containers[1].bol_id

(***************************************************************************)
(* C2: for every BOL, n_eta_present + n_eta_missing = n_containers and     *)
(* n_ata_present + n_ata_missing = n_containers, where n_containers is the *)
(* number of container rows of the BOL and a value is missing iff it is    *)
(* empty or all white space.                                               *)
(***************************************************************************)
C2_CountsPartition ==
    Completed =>
        \A b \in Bols :
            LET agg  == bol_spread[b]
                mine == RowsOf(containers, agg.bol_id)
            IN  /\ agg.n_containers = Cardinality(mine)
                /\ agg.n_eta_present + agg.n_eta_missing = agg.n_containers
                /\ agg.n_ata_present + agg.n_ata_missing = agg.n_containers
                /\ agg.n_eta_missing
                     = Cardinality({i \in mine : IsBlankText(containers[i].eta)})
                /\ agg.n_ata_missing
                     = Cardinality({i \in mine : IsBlankText(containers[i].ata)})

\* a BOL with an empty ETA, a white-space ETA and an ETA that is present
C2_Witness ==
    /\ Completed
    /\ \E b \in Bols :
         /\ bol_spread[b].n_eta_missing = 2
         /\ bol_spread[b].n_eta_present = 1
         /\ \E i \in RowsOf(containers, bol_spread[b].bol_id) : containers[i].eta = Blank
         /\ \E i \in RowsOf(containers, bol_spread[b].bol_id) : containers[i].eta = <<>>

(***************************************************************************)
(* C3: classify_spread_hours is total: every input gets one of the four    *)
(* bucket labels; None and NaN get NO_VALID_TIMESTAMP, 0 gets              *)
(* NO_DIFFERENCE, 0 < spread <= 24 gets BETWEEN_1_AND_24_HOURS (24         *)
(* included), spread > 24 gets MORE_THAN_24_HOURS; for a spread, which is  *)
(* never negative, exactly one of the three numeric cases applies.         *)
(***************************************************************************)
IsZero(v) == v.num = 0

InDay(v) == 0 < v.num /\ v.num <= DayHours * v.den

OverDay(v) == v.num > DayHours * v.den

C3_ClassifyTotal ==
    bucket # NoBucket =>
        /\ bucket \in BucketLabels
        /\ ~IsNumber(value) <=> bucket = "NO_VALID_TIMESTAMP"
        /\ IsNumber(value) =>
             /\ IsZero(value) => bucket = "NO_DIFFERENCE"
             /\ InDay(value) => bucket = "BETWEEN_1_AND_24_HOURS"
             /\ OverDay(value) => bucket = "MORE_THAN_24_HOURS"
             /\ value.num >= 0 =>
                  /\ IsZero(value) \/ InDay(value) \/ OverDay(value)
                  /\ ~(IsZero(value) /\ InDay(value))
                  /\ ~(IsZero(value) /\ OverDay(value))
                  /\ ~(InDay(value) /\ OverDay(value))
                  /\ bucket = "NO_DIFFERENCE" => IsZero(value)
                  /\ bucket = "BETWEEN_1_AND_24_HOURS" => InDay(value)
                  /\ bucket = "MORE_THAN_24_HOURS" => OverDay(value)

\* exactly 24 hours, given in seconds over 3600, classified
C3_Witness ==
    /\ value = Float(DayHours * SecondsPerHour, SecondsPerHour)
    /\ bucket = "BETWEEN_1_AND_24_HOURS"

ContainerRowsOnly == SelectSeq(df, IsContainerRow)

C5_OnlyContainerRowsCount ==
    /\ ButtonPressed => Project(containers, Columns) = ContainerRowsOnly
    /\ Completed =>
         /\ \A b \in Bols :
              bol_spread[b].n_containers
                = Cardinality(RowsOf(ContainerRowsOnly, bol_spread[b].bol_id))
         /\ {bol_spread[b].bol_id : b \in Bols} = BolIds(ContainerRowsOnly)
         /\ \A i \in 1..Len(bol_mixed_ata_presence_detail) :
              IsContainerRow(bol_mixed_ata_presence_detail[i])
         /\ LET expected == aggregate(parse_timestamps(ContainerRowsOnly))
            IN  /\ bol_spread = expected
                /\ summary_df = summary_rows(expected, mixed_ata_bols(expected))

\* a container spelt with white space and lower case, next to a CONTAINERS and
\* a TRUCK row
C5_Witness ==
    /\ Completed
    /\ \E i \in 1..Len(df) : df[i].shipment_type = Str_container_id
    /\ \E i \in 1..Len(df) : df[i].shipment_type = Str_CONTAINERS
    /\ \E i \in 1..Len(df) : df[i].shipment_type = Str_TRUCK
    /\ Len(containers) = 1

(***************************************************************************)
(* C6: in the summary the counts of the ETA rows add up to the number of   *)
(* distinct BOLs among the container rows, and so do those of the ATA      *)
(* rows; the count of a row is the number of BOLs whose bucket for the     *)
(* metric is the bucket of the row, and a bucket no BOL has gets no row.   *)
(***************************************************************************)
MetricRows(metric) == {i \in 1..Len(summary_df) : summary_df[i].metric = metric}

RECURSIVE SumCounts(_)
SumCounts(S) ==
    IF S = {} THEN 0
    ELSE LET i == CHOOSE x \in S : TRUE
         IN  summary_df[i].count + SumCounts(S \ {i})

BolsInBucket(column, label) == {b \in Bols : bol_spread[b][column] = label}

MetricCountsRight(metric, column) ==
    /\ SumCounts(MetricRows(metric)) = Cardinality(BolIds(containers))
    /\ \A i \in MetricRows(metric) :
         /\ summary_df[i].count = Cardinality(BolsInBucket(column, summary_df[i].bucket))
         /\ summary_df[i].count > 0
    /\ \A i, j \in MetricRows(metric) :
         summary_df[i].bucket = summary_df[j].bucket => i = j
    /\ \A label \in BucketLabels :
         BolsInBucket(column, label) # {}
           => \E i \in MetricRows(metric) : summary_df[i].bucket = label

C6_SummaryTotals ==
    Completed =>
        /\ MetricCountsRight("ETA", "eta_spread_bucket")
        /\ MetricCountsRight("ATA", "ata_spread_bucket")

\* three BOLs in two ETA buckets, one of which holds two of them
C6_Witness ==
    /\ Completed
    /\ Len(bol_spread) = 3
    /\ \E i \in MetricRows("ETA") : summary_df[i].count = 2
    /\ Cardinality(MetricRows("ETA")) = 2

(***************************************************************************)
(* C7, as stated: the summary of every run has exactly one row with metric *)
(* ATA_MIXED_PRESENCE and bucket MIXED_PRESENT_AND_MISSING, after all ETA  *)
(* and ATA rows, counting the BOLs with mixed ATA presence, also when that *)
(* count is 0 and also when no row is a container.                         *)
(***************************************************************************)
MixedRowLast ==
    /\ Len(summary_df) >= 1
    /\ Cardinality(MetricRows("ATA_MIXED_PRESENCE")) = 1
    /\ summary_df[Len(summary_df)].metric = "ATA_MIXED_PRESENCE"
    /\ summary_df[Len(summary_df)].bucket = "MIXED_PRESENT_AND_MISSING"
    /\ summary_df[Len(summary_df)].count
         = Cardinality({bol \in BolIds(containers) : HasMixedAta(bol)})
    /\ \A i \in 1..(Len(summary_df) - 1) : summary_df[i].metric \in {"ETA", "ATA"}

Swap(rows, i, j) ==
    [k \in 1..Len(rows) |-> IF k = i THEN rows[j] ELSE IF k = j THEN rows[i] ELSE rows[k]]

SummaryCounts(rows) ==
    {<<rows[i].metric, rows[i].bucket, rows[i].count>> : i \in 1..Len(rows)}

AggregatesOf(rows) == aggregate(parse_timestamps(filter_containers(rows)))

SpreadRight(agg, min, max, spread, label, dt) ==
    LET valid == {i \in RowsOf(containers, agg.bol_id) : containers[i][dt] # NaT}
    IN  /\ spread # NaN <=> (min # NaT /\ max # NaT)
        /\ min # NaT <=> valid # {}
        /\ max # NaT <=> valid # {}
        /\ spread # NaN =>
             /\ \E i \in valid : containers[i][dt] = min
             /\ \E i \in valid : containers[i][dt] = max
             /\ \A i \in valid : min.secs <= containers[i][dt].secs
             /\ \A i \in valid : containers[i][dt].secs <= max.secs
             /\ spread = Float(max.secs - min.secs, SecondsPerHour)
             /\ spread.num >= 0
        /\ label = "NO_VALID_TIMESTAMP" <=> spread = NaN

C9_SpreadDefinedness ==
    Completed =>
        \A b \in Bols :
            LET agg == bol_spread[b]
            IN  /\ SpreadRight(agg, agg.eta_min, agg.eta_max, agg.eta_spread_hours,
                               agg.eta_spread_bucket, "eta_dt")
                /\ SpreadRight(agg, agg.ata_min, agg.ata_max, agg.ata_spread_hours,
                               agg.ata_spread_bucket, "ata_dt")

\* a BOL of two rows whose ETA spread is one second and whose ATA spread is
\* undefined
C9_Witness ==
    /\ Completed
    /\ \E b \in Bols :
         /\ bol_spread[b].eta_spread_hours = Float(1, SecondsPerHour)
         /\ bol_spread[b].eta_spread_bucket = "BETWEEN_1_AND_24_HOURS"
         /\ bol_spread[b].ata_spread_hours = NaN
         /\ bol_spread[b].n_containers = 2

(***************************************************************************)
(* C10: presence is counted on the text and the extrema on the parsed      *)
(* timestamps: a container row whose ETA (ATA) is not blank and cannot be  *)
(* parsed is counted as present and adds nothing to min / max; so a BOL    *)
(* whose ETAs are all such has n_eta_present = n_containers,               *)
(* n_eta_missing = 0, no eta_min, no eta_max and bucket                    *)
(* NO_VALID_TIMESTAMP; and the run completes whatever the timestamps.      *)
(***************************************************************************)
PresenceRight(agg, raw, dt, present, missing, min, max, label) ==
    LET mine       == RowsOf(containers, agg.bol_id)
        unparsable == {i \in mine : ~IsBlankText(containers[i][raw])
                                      /\ containers[i][dt] = NaT}
        parsed     == {i \in mine : containers[i][dt] # NaT}
    IN  /\ present = Cardinality({i \in mine : ~IsBlankText(containers[i][raw])})
        /\ present = Cardinality(unparsable) + Cardinality(parsed)
        /\ parsed # {} =>
             /\ \E i \in parsed : min = containers[i][dt]
             /\ \E i \in parsed : max = containers[i][dt]
             /\ \A i \in parsed : min.secs <= containers[i][dt].secs
             /\ \A i \in parsed : containers[i][dt].secs <= max.secs
        /\ unparsable = mine =>
             /\ present = agg.n_containers
             /\ missing = 0
             /\ min = NaT /\ max = NaT
             /\ label = "NO_VALID_TIMESTAMP"

C10_PresenceIndependentOfParse ==
    /\ (ButtonPressed /\ \E i \in 1..Len(df) : IsContainerRow(df[i])) => Completed
    /\ Completed =>
         \A b \in Bols :
             LET agg == bol_spread[b]
             IN  /\ PresenceRight(agg, "eta", "eta_dt", agg.n_eta_present,
                                  agg.n_eta_missing, agg.eta_min, agg.eta_max,
                                  agg.eta_spread_bucket)
                 /\ PresenceRight(agg, "ata", "ata_dt", agg.n_ata_present,
                                  agg.n_ata_missing, agg.ata_min, agg.ata_max,
                                  agg.ata_spread_bucket)

\* a BOL of two rows whose ETAs are both the text TBD
C10_Witness ==
    /\ Completed
    /\ \E b \in Bols :
         /\ bol_spread[b].n_containers = 2
         /\ bol_spread[b].n_eta_present = 2
         /\ bol_spread[b].eta_min = NaT
         /\ bol_spread[b].eta_spread_bucket = "NO_VALID_TIMESTAMP"
         /\ \A i \in RowsOf(containers, bol_spread[b].bol_id) : containers[i].eta = TBD

====
